---- MODULE Spec2Model ----
(***************************************************************************)
(* Model of peekaboo/config.py: PeekabooConfig (defaults, overrides, the   *)
(* configuration file, typed getters) and PeekabooRulesetConfiguration     *)
(* (the ruleset file with dotted list options).                            *)
(*                                                                         *)
(* Text is a sequence of one-character strings, so that int(), lower()     *)
(* and split('.') are computed character by character.                     *)
(* A literal the program never looks into (a default path, a format) is    *)
(* kept as a text of one token.                                            *)
(***************************************************************************)
EXTENDS Integers, Sequences, FiniteSets, TLC

VARIABLES
    args,           \* PeekabooConfig(config_file, log_level): the caller's arguments
    fs,             \* file system: path -> "missing" | "unreadable" | "ok"
    disk,           \* content of the configuration file at the resolved path
    self,           \* vars(self) of the PeekabooConfig under construction
    config,         \* self.__config, the SafeConfigParser
    pc,             \* position inside PeekabooConfig.__init__
    error,          \* the exception that left the constructor, if any
    trace,          \* externally visible steps, in order
    root_logger,    \* logging.getLogger(): handlers and level
    call,           \* last call of get / get_log_level and its outcome
    rs_file,        \* the ruleset file handed to PeekabooRulesetConfiguration
    rs_self,        \* the PeekabooRulesetConfiguration object
    rs_pc,          \* position of the ruleset constructor
    rs_error,       \* the exception that left the ruleset constructor, if any
    rs_call         \* last call of rule_config / rule_enabled and its result

vars == <<args, fs, disk, self, config, pc, error, trace, root_logger, call,
          rs_file, rs_self, rs_pc, rs_error, rs_call>>

mainVars == <<args, fs, disk, self, config, pc, error, trace, root_logger>>
rsVars == <<rs_file, rs_self, rs_pc, rs_error, rs_call>>

-----------------------------------------------------------------------------
(* Bounds *)

\* number of options a configuration file sets
MaxSet == 1
\* number of option lines in a ruleset section
MaxLines == 3

-----------------------------------------------------------------------------
(* Python values *)

PyNone == [t |-> "NoneType"]
PyInt(n) == [t |-> "int", i |-> n]
PyBool(b) == [t |-> "bool", b |-> b]
PyStr(s) == [t |-> "str", s |-> s]
PyFloat(x) == [t |-> "float", f |-> x]

Return(v) == [kind |-> "return", val |-> v]
Raise(type, msg, arg) == [kind |-> "raise", type |-> type, msg |-> msg, arg |-> arg]

NoError == [kind |-> "none"]

\* the truth value of an argument in "if log_level:" / "if config_file:"
Truthy(v) ==
    CASE v.t = "NoneType" -> FALSE
      [] v.t = "int" -> v.i # 0
      [] v.t = "bool" -> v.b
      [] v.t = "str" -> v.s # <<>>
      [] OTHER -> TRUE

-----------------------------------------------------------------------------
(* Text *)

Digits == <<"0", "1", "2", "3", "4", "5", "6", "7", "8", "9">>
UpperCase == <<"A", "B", "C", "D", "E", "F", "G", "H", "I", "J", "K", "L", "M",
               "N", "O", "P", "Q", "R", "S", "T", "U", "V", "W", "X", "Y", "Z">>
LowerCase == <<"a", "b", "c", "d", "e", "f", "g", "h", "i", "j", "k", "l", "m",
               "n", "o", "p", "q", "r", "s", "t", "u", "v", "w", "x", "y", "z">>

IsDigit(c) == \E k \in 1..Len(Digits) : Digits[k] = c
DigitValue(c) == (CHOOSE k \in 1..Len(Digits) : Digits[k] = c) - 1

LowerChar(c) ==
    IF \E k \in 1..Len(UpperCase) : UpperCase[k] = c
    THEN LowerCase[CHOOSE k \in 1..Len(UpperCase) : UpperCase[k] = c]
    ELSE c

\* str.lower()
Lower(s) == [k \in 1..Len(s) |-> LowerChar(s[k])]

\* index of the first occurrence of character c in s, 0 when there is none
Find(s, c) ==
    IF \E k \in 1..Len(s) : s[k] = c
    THEN CHOOSE k \in 1..Len(s) : s[k] = c /\ \A j \in 1..(k - 1) : s[j] # c
    ELSE 0

RECURSIVE DigitsValue(_)
DigitsValue(s) ==
    IF s = <<>> THEN 0
    ELSE 10 * DigitsValue(SubSeq(s, 1, Len(s) - 1)) + DigitValue(s[Len(s)])

AllDigits(s) == s # <<>> /\ \A k \in 1..Len(s) : IsDigit(s[k])

-----------------------------------------------------------------------------
(* SafeConfigParser, as far as config.py uses it.  A parsed file is a      *)
(* function from <<section, option>> to the text the parser delivers for   *)
(* the option (stripped, after the parser's own '%' substitution); a       *)
(* section exists when the file sets an option in it.                      *)

HasSection(cfg, section) == \E p \in DOMAIN cfg : p[1] = section
HasOption(cfg, section, option) == <<section, option>> \in DOMAIN cfg

\* SafeConfigParser.get(section, option)
ParserGet(cfg, section, option) ==
    IF ~HasSection(cfg, section)
    THEN Raise("NoSectionError", "No section", <<section>>)
    ELSE IF ~HasOption(cfg, section, option)
    THEN Raise("NoOptionError", "No option", <<option>>)
    ELSE Return(PyStr(cfg[<<section, option>>]))

\* int(text) on a stripped string: an optional sign and at least one digit
IntOf(s) ==
    LET signed == s # <<>> /\ s[1] \in {"+", "-"}
        body == IF signed THEN Tail(s) ELSE s
    IN  IF AllDigits(body)
        THEN Return(PyInt(IF signed /\ s[1] = "-" THEN 0 - DigitsValue(body)
                          ELSE DigitsValue(body)))
        ELSE Raise("ValueError", "invalid literal for int() with base 10", s)

\* SafeConfigParser.getint(section, option)
ParserGetInt(cfg, section, option) ==
    LET r == ParserGet(cfg, section, option) IN
    IF r.kind = "raise" THEN r ELSE IntOf(r.val.s)

\* RawConfigParser._boolean_states
BooleanTrue == { <<"1">>, <<"y", "e", "s">>, <<"t", "r", "u", "e">>, <<"o", "n">> }
BooleanFalse == { <<"0">>, <<"n", "o">>, <<"f", "a", "l", "s", "e">>, <<"o", "f", "f">> }

\* the test of getboolean: v.lower() looked up in _boolean_states
BoolOf(s) ==
    IF Lower(s) \in BooleanTrue THEN Return(PyBool(TRUE))
    ELSE IF Lower(s) \in BooleanFalse THEN Return(PyBool(FALSE))
    ELSE Raise("ValueError", "Not a boolean", s)

\* SafeConfigParser.getboolean(section, option)
ParserGetBoolean(cfg, section, option) ==
    LET r == ParserGet(cfg, section, option) IN
    IF r.kind = "raise" THEN r ELSE BoolOf(r.val.s)

-----------------------------------------------------------------------------
(* PeekabooConfig *)

CRITICAL == 50
ERROR == 40
WARNING == 30
INFO == 20
DEBUG == 10

DefaultConfigFile == <<"/opt/peekaboo/etc/peekaboo.conf">>

\* the hard defaults
Defaults ==
    [ user |-> PyStr(<<"peekaboo">>),
      group |-> PyStr(<<"peekaboo">>),
      pid_file |-> PyStr(<<"/var/run/peekaboo/peekaboo.pid">>),
      sock_file |-> PyStr(<<"/var/run/peekaboo/peekaboo.sock">>),
      log_level |-> PyInt(INFO),
      log_format |-> PyStr(<<"%(asctime)s - %(name)s - (%(threadName)s) - %(levelname)s - %(message)s">>),
      interpreter |-> PyStr(<<"/usr/bin/python -u">>),
      worker_count |-> PyInt(3),
      sample_base_dir |-> PyStr(<<"/tmp">>),
      job_hash_regex |-> PyStr(<<"/var/lib/amavis/tmp/([^/]+)/parts.*">>),
      use_debug_module |-> PyBool(FALSE),
      keep_mail_data |-> PyBool(FALSE),
      db_url |-> PyStr(<<"sqlite:////var/lib/peekaboo/peekaboo.db">>),
      config_file |-> PyStr(DefaultConfigFile),
      ruleset_config |-> PyStr(<<"/opt/peekaboo/etc/ruleset.conf">>),
      cuckoo_mode |-> PyStr(<<"api">>),
      cuckoo_url |-> PyStr(<<"http://127.0.0.1:8090">>),
      cuckoo_poll_interval |-> PyInt(5),
      cuckoo_storage |-> PyStr(<<"/var/lib/peekaboo/.cuckoo/storage">>),
      cuckoo_exec |-> PyStr(<<"/opt/cuckoo/bin/cuckoo">>),
      cuckoo_submit |-> PyStr(<<"/opt/cuckoo/bin/cuckoo submit">>),
      cluster_instance_id |-> PyInt(0),
      cluster_stale_in_flight_threshold |-> PyInt(1 * 60 * 60),
      cluster_duplicate_check_interval |-> PyInt(60) ]

\* field -> <<section, option, getter>>
config_options ==
    [ log_level |-> <<"logging", "log_level", "get_log_level">>,
      log_format |-> <<"logging", "log_format", "get">>,
      user |-> <<"global", "user", "get">>,
      group |-> <<"global", "group", "get">>,
      pid_file |-> <<"global", "pid_file", "get">>,
      sock_file |-> <<"global", "socket_file", "get">>,
      interpreter |-> <<"global", "interpreter", "get">>,
      worker_count |-> <<"global", "worker_count", "get">>,
      sample_base_dir |-> <<"global", "sample_base_dir", "get">>,
      job_hash_regex |-> <<"global", "job_hash_regex", "get">>,
      use_debug_module |-> <<"global", "use_debug_module", "get">>,
      keep_mail_data |-> <<"global", "keep_mail_data", "get">>,
      db_url |-> <<"db", "url", "get">>,
      ruleset_config |-> <<"ruleset", "config", "get">>,
      cuckoo_mode |-> <<"cuckoo", "mode", "get">>,
      cuckoo_url |-> <<"cuckoo", "url", "get">>,
      cuckoo_poll_interval |-> <<"cuckoo", "poll_interval", "get">>,
      cuckoo_storage |-> <<"cuckoo", "storage_path", "get">>,
      cuckoo_exec |-> <<"cuckoo", "exec", "get">>,
      cuckoo_submit |-> <<"cuckoo", "submit", "get">>,
      cluster_instance_id |-> <<"cluster", "instance_id", "get">>,
      cluster_stale_in_flight_threshold |-> <<"cluster", "stale_in_flight_threshold", "get">>,
      cluster_duplicate_check_interval |-> <<"cluster", "duplicate_check_interval", "get">> ]

\* the types the getter table of get() has an entry for
GetterTypes == {"int", "bool", "str", "NoneType"}

\* get() without the dispatch on the default's type: the string getter always
get_untyped(cfg, section, option, default, option_type) ==
    LET r == ParserGet(cfg, section, option) IN
    IF r.kind = "raise" /\ r.type \in {"NoSectionError", "NoOptionError"}
    THEN Return(default)
    ELSE r

\* get() with a catch-all except clause: a value that cannot be coerced
\* falls back to the default as well
get_defaulting(cfg, section, option, default, option_type) ==
    LET type == IF option_type = "NoneType" /\ default.t # "NoneType"
                THEN default.t ELSE option_type
        r == CASE type = "int" -> ParserGetInt(cfg, section, option)
               [] type = "bool" -> ParserGetBoolean(cfg, section, option)
               [] OTHER -> ParserGet(cfg, section, option)
    IN  IF r.kind = "raise" THEN Return(default) ELSE r

\* get() whose except clauses forget NoOptionError
get_section_only(cfg, section, option, default, option_type) ==
    LET type == IF option_type = "NoneType" /\ default.t # "NoneType"
                THEN default.t ELSE option_type
    IN  IF type \notin {"int", "bool", "str", "NoneType"}
        THEN Raise("KeyError", "", <<type>>)
        ELSE LET r == CASE type = "int" -> ParserGetInt(cfg, section, option)
                        [] type = "bool" -> ParserGetBoolean(cfg, section, option)
                        [] OTHER -> ParserGet(cfg, section, option)
             IN  IF r.kind = "raise" /\ r.type = "NoSectionError"
                 THEN Return(default)
                 ELSE r

\* PeekabooConfig.get(section, option, default, option_type); option_type
\* "NoneType" stands for None (not given), any other value names a type
get(cfg, section, option, default, option_type) ==
    LET type == IF option_type = "NoneType" /\ default.t # "NoneType"
                THEN default.t ELSE option_type
    IN  IF type \notin GetterTypes
        THEN Raise("KeyError", "", <<type>>)
        ELSE LET r == CASE type = "int" -> ParserGetInt(cfg, section, option)
                        [] type = "bool" -> ParserGetBoolean(cfg, section, option)
                        [] OTHER -> ParserGet(cfg, section, option)
             IN  IF r.kind = "raise" /\ r.type \in {"NoSectionError", "NoOptionError"}
                 THEN Return(default)
                 ELSE r

\* the levels table of get_log_level
levels ==
    ( <<"C", "R", "I", "T", "I", "C", "A", "L">> :> CRITICAL ) @@
    ( <<"E", "R", "R", "O", "R">> :> ERROR ) @@
    ( <<"W", "A", "R", "N", "I", "N", "G">> :> WARNING ) @@
    ( <<"I", "N", "F", "O">> :> INFO ) @@
    ( <<"D", "E", "B", "U", "G">> :> DEBUG )

\* get_log_level() that falls back to the default on an unknown name
get_log_level_defaulting(cfg, section, option, default) ==
    LET level == get(cfg, section, option, PyNone, "NoneType") IN
    IF level.kind = "raise" THEN level
    ELSE IF level.val = PyNone \/ level.val.s \notin DOMAIN levels
    THEN Return(default)
    ELSE Return(PyInt(levels[level.val.s]))

\* PeekabooConfig.get_log_level(section, option, default)
get_log_level(cfg, section, option, default) ==
    LET level == get(cfg, section, option, PyNone, "NoneType") IN
    IF level.kind = "raise" THEN level
    ELSE IF level.val = PyNone THEN Return(default)
    ELSE IF level.val.s \notin DOMAIN levels
    THEN Raise("PeekabooConfigException", "Unknown log level", level.val.s)
    ELSE Return(PyInt(levels[level.val.s]))

\* "for handler in _logger.handlers: _logger.removeHandler(handler)": the list
\* shrinks under the iteration, which then skips the element that moved up
RECURSIVE RemoveWhileIterating(_, _)
RemoveWhileIterating(handlers, k) ==
    IF k > Len(handlers) THEN handlers
    ELSE RemoveWhileIterating(SubSeq(handlers, 1, k - 1)
                              \o SubSeq(handlers, k + 1, Len(handlers)), k + 1)

\* PeekabooConfig.setup_logging
setup_logging(logger, obj) ==
    [ handlers |-> Append(RemoveWhileIterating(logger.handlers, 1),
                          [stream |-> "stdout", format |-> obj.log_format]),
      level |-> obj.log_level ]

\* vars(self) before the first assignment
NoObject == << >>

AltConfigFile == <<"/etc/peekaboo-alt.conf">>
Paths == {DefaultConfigFile, AltConfigFile}

\* the texts a configuration file may give an option:
\* 12, -1, yes, Off, DEBUG, debug, ERROR and the empty text
RawValues ==
    { <<"1", "2">>, <<"-", "1">>, <<"y", "e", "s">>, <<"O", "f", "f">>,
      <<"D", "E", "B", "U", "G">>, <<"d", "e", "b", "u", "g">>,
      <<"E", "R", "R", "O", "R">>, << >> }

SecOpts == { <<config_options[f][1], config_options[f][2]>> : f \in DOMAIN config_options }

RECURSIVE SubsetsUpTo(_, _)
SubsetsUpTo(S, k) ==
    IF k = 0 THEN { {} }
    ELSE LET P == SubsetsUpTo(S, k - 1) IN P \cup { p \cup {x} : p \in P, x \in S }

\* the files that set at most MaxSet of the options in S
FilesOver(S) == UNION { [D -> RawValues] : D \in SubsetsUpTo(S, MaxSet) }

\* a parser that has read nothing, a file that sets nothing
EmptyFile == << >>

NoCall == [fn |-> "none"]

MainIdle ==
    /\ args = [config_file |-> PyNone, log_level |-> PyNone]
    /\ fs = [p \in Paths |-> "missing"]
    /\ disk = EmptyFile
    /\ self = NoObject
    /\ pc = "idle"
    /\ error = NoError
    /\ trace = << >>
    /\ root_logger = [handlers |-> << >>, level |-> PyInt(WARNING)]

RulesetIdle ==
    /\ rs_file = [status |-> "missing", sections |-> << >>]
    /\ rs_self = NoObject
    /\ rs_pc = "idle"
    /\ rs_error = NoError
    /\ rs_call = NoCall

\* A call PeekabooConfig(config_file, log_level) in a fresh process.  Every
\* combination of arguments and file states is tried; the file contents are
\* tried where both paths hold a readable file (a file that is never read
\* has no content to speak of).
Init ==
    /\ args \in [ config_file : {PyNone, PyStr(<< >>), PyStr(AltConfigFile)},
                  log_level : {PyNone, PyInt(0), PyInt(DEBUG)} ]
    /\ fs \in [Paths -> {"missing", "unreadable", "ok"}]
    /\ disk \in IF fs = [p \in Paths |-> "ok"]
                THEN FilesOver(SecOpts) ELSE {EmptyFile}
    /\ self = NoObject
    /\ config = EmptyFile
    /\ pc = "start"
    /\ error = NoError
    /\ trace = << >>
    /\ root_logger = [handlers |-> << >>, level |-> PyInt(WARNING)]
    /\ call = NoCall
    /\ RulesetIdle

\* the overrides with the config_file argument forgotten
ApplyLogLevelOnly(a) ==
    [Defaults EXCEPT !.log_level = IF Truthy(a.log_level) THEN a.log_level ELSE @]

\* __init__, lines 52-114: the hard defaults, then the overrides from outside
ApplyOverrides(a) ==
    [Defaults EXCEPT
        !.log_level = IF Truthy(a.log_level) THEN a.log_level ELSE @,
        !.config_file = IF Truthy(a.config_file) THEN a.config_file ELSE @]

SetDefaults ==
    /\ pc = "start"
    /\ self' = ApplyOverrides(args)
    /\ pc' = "defaults"
    /\ UNCHANGED <<args, fs, disk, config, error, trace, root_logger, call>>
    /\ UNCHANGED rsVars

LoggingEvent(obj) ==
    [ev |-> "setup_logging", level |-> obj.log_level, format |-> obj.log_format]

\* __init__, line 118: logging with the values known before the file is read
SetupLoggingEarly ==
    /\ pc = "defaults"
    /\ root_logger' = setup_logging(root_logger, self)
    /\ trace' = Append(trace, LoggingEvent(self))
    /\ pc' = "logging"
    /\ UNCHANGED <<args, fs, disk, self, config, error, call>>
    /\ UNCHANGED rsVars

\* __init__, lines 123-126: os.path.isfile
IsFileOutcome(files, obj) ==
    IF files[obj.config_file.s] = "missing"
    THEN Raise("PeekabooConfigException", "does not exist or is not a file",
               obj.config_file.s)
    ELSE Return(PyNone)

CheckIsFile ==
    /\ pc = "logging"
    /\ trace' = Append(trace, [ev |-> "isfile"])
    /\ LET r == IsFileOutcome(fs, self) IN
       IF r.kind = "raise"
       THEN error' = r /\ pc' = "raised"
       ELSE error' = error /\ pc' = "isfile"
    /\ UNCHANGED <<args, fs, disk, self, config, root_logger, call>>
    /\ UNCHANGED rsVars

\* __init__, lines 128-131: os.access(R_OK)
AccessOutcome(files, obj) ==
    IF files[obj.config_file.s] # "ok"
    THEN Raise("PeekabooConfigException", "is not accessible for reading",
               obj.config_file.s)
    ELSE Return(PyNone)

CheckAccess ==
    /\ pc = "isfile"
    /\ trace' = Append(trace, [ev |-> "access"])
    /\ LET r == AccessOutcome(fs, self) IN
       IF r.kind = "raise"
       THEN error' = r /\ pc' = "raised"
       ELSE error' = error /\ pc' = "access"
    /\ UNCHANGED <<args, fs, disk, self, config, root_logger, call>>
    /\ UNCHANGED rsVars

\* __init__, lines 133-134
ReadFile ==
    /\ pc = "access"
    /\ config' = disk
    /\ trace' = Append(trace, [ev |-> "read"])
    /\ pc' = "parsed"
    /\ UNCHANGED <<args, fs, disk, self, error, root_logger, call>>
    /\ UNCHANGED rsVars

\* __init__, lines 140-148: the value one descriptor resolves to
Resolve(cfg, obj, option) ==
    LET config_names == config_options[option] IN
    IF config_names[3] = "get_log_level"
    THEN get_log_level(cfg, config_names[1], config_names[2], obj[option])
    ELSE get(cfg, config_names[1], config_names[2], obj[option], "NoneType")

\* __init__, lines 137-148.  The loop runs in the dictionary's order and
\* stops at the first descriptor whose getter raises; any failing descriptor
\* comes first in some order.
ResolveOptions ==
    /\ pc = "parsed"
    /\ trace' = Append(trace, [ev |-> "resolve"])
    /\ LET failing == { o \in DOMAIN config_options :
                            Resolve(config, self, o).kind = "raise" } IN
       IF failing # {}
       THEN /\ \E o \in failing : error' = Resolve(config, self, o)
            /\ pc' = "raised"
            /\ self' = self
       ELSE /\ self' = [ f \in DOMAIN self |->
                           IF f \in DOMAIN config_options
                           THEN Resolve(config, self, f).val ELSE self[f] ]
            /\ pc' = "resolved"
            /\ error' = error
    /\ UNCHANGED <<args, fs, disk, config, root_logger, call>>
    /\ UNCHANGED rsVars

\* __init__, line 151: logging with what the file said
SetupLoggingFinal ==
    /\ pc = "resolved"
    /\ root_logger' = setup_logging(root_logger, self)
    /\ trace' = Append(trace, LoggingEvent(self))
    /\ pc' = "configured"
    /\ UNCHANGED <<args, fs, disk, self, config, error, call>>
    /\ UNCHANGED rsVars

\* the dump at INFO already
DumpAtInfo(obj) == obj.log_level.i <= INFO

\* __init__, lines 157-158, and the return to the caller
DumpWanted(obj) == obj.log_level = PyInt(DEBUG)

Finish ==
    /\ pc = "configured"
    /\ trace' = IF DumpWanted(self)
                THEN Append(trace, [ev |-> "debug_dump", settings |-> self])
                ELSE trace
    /\ pc' = "done"
    /\ UNCHANGED <<args, fs, disk, self, config, error, root_logger, call>>
    /\ UNCHANGED rsVars

Next ==
    \/ SetDefaults
    \/ SetupLoggingEarly
    \/ CheckIsFile
    \/ CheckAccess
    \/ ReadFile
    \/ ResolveOptions
    \/ SetupLoggingFinal
    \/ Finish

Spec == Init /\ [][Next]_vars

-----------------------------------------------------------------------------
(* Claims about PeekabooConfig construction (Spec) *)

OptionKey(f) == <<config_options[f][1], config_options[f][2]>>

\* the value a field holds just before the file is parsed: the hard default,
\* or the caller's log_level when one was applied
PreFileValue(f) ==
    IF f = "log_level" /\ args.log_level \notin {PyNone, PyInt(0)}
    THEN args.log_level
    ELSE Defaults[f]

\* the file's text coerced as the field asks: the level name looked up for
\* log_level, else int, bool or string after the type of the pre-file value
Coerced(f, raw) ==
    IF f = "log_level"
    THEN IF raw \in DOMAIN levels THEN Return(PyInt(levels[raw]))
         ELSE Raise("PeekabooConfigException", "Unknown log level", raw)
    ELSE CASE PreFileValue(f).t = "int" -> IntOf(raw)
           [] PreFileValue(f).t = "bool" -> BoolOf(raw)
           [] OTHER -> Return(PyStr(raw))

\* C1: after a successful construction every field of config_options holds
\* the file's value coerced to the type of its pre-file value where the file
\* sets the option, and its pre-file value where the file omits the option
\* or its section.
C1_FieldsResolved ==
    pc = "done" =>
        \A f \in DOMAIN config_options :
            IF OptionKey(f) \in DOMAIN disk
            THEN Return(self[f]) = Coerced(f, disk[OptionKey(f)])
            ELSE self[f] = PreFileValue(f)

\* a construction that succeeded on a file setting an int option, with the
\* log level the caller asked for kept because the file omits it
C1_Witness ==
    /\ pc = "done"
    /\ <<"global", "worker_count">> \in DOMAIN disk
    /\ self.worker_count = PyInt(12)
    /\ args.log_level = PyInt(DEBUG)
    /\ self.log_level = PyInt(DEBUG)

\* the path the constructor is asked to read: the override, else the default
GivenPath ==
    IF args.config_file \notin {PyNone, PyStr(<< >>)}
    THEN args.config_file.s ELSE DefaultConfigFile

Touched(ev) == \E k \in 1..Len(trace) : trace[k].ev = ev

\* C2: a missing configuration file fails construction with the "does not
\* exist" error, an existing unreadable one with the "not accessible" error;
\* either way before the file is parsed or a descriptor resolved, and the
\* constructor never returns an object.
C2_FileErrors ==
    /\ fs[GivenPath] = "missing" =>
        /\ pc \in {"start", "defaults", "logging", "raised"}
        /\ pc = "raised" =>
              error = Raise("PeekabooConfigException",
                            "does not exist or is not a file", GivenPath)
    /\ fs[GivenPath] = "unreadable" =>
        /\ pc \in {"start", "defaults", "logging", "isfile", "raised"}
        /\ pc = "raised" =>
              error = Raise("PeekabooConfigException",
                            "is not accessible for reading", GivenPath)
    /\ fs[GivenPath] # "ok" =>
        /\ ~Touched("read") /\ ~Touched("resolve")
        /\ config = EmptyFile
        /\ pc = "raised" \/ ENABLED Next

\* the override names a missing file while the default path is readable
C2_Witness ==
    /\ pc = "raised"
    /\ args.config_file = PyStr(AltConfigFile)
    /\ fs[AltConfigFile] = "missing"
    /\ fs[DefaultConfigFile] = "ok"
    /\ error.msg = "does not exist or is not a file"

\* the file gives option f a text its type cannot take
Malformed(f) ==
    /\ OptionKey(f) \in DOMAIN disk
    /\ f # "log_level"
    /\ Coerced(f, disk[OptionKey(f)]).kind = "raise"

UnknownLevel ==
    /\ OptionKey("log_level") \in DOMAIN disk
    /\ Coerced("log_level", disk[OptionKey("log_level")]).kind = "raise"

\* C5: when the file gives an int or bool option a text that cannot be
\* coerced, construction never gets past the resolution of the descriptors:
\* it ends with an error raised by a getter (the coercion's ValueError, or
\* the unknown-log-level error when the file has that fault too), and no
\* object is returned.
C5_CoercionErrorPropagates ==
    (\E f \in DOMAIN config_options : Malformed(f)) =>
        /\ pc \notin {"resolved", "configured", "done"}
        /\ pc = "raised" =>
            \/ \E f \in DOMAIN config_options :
                  Malformed(f) /\ error = Coerced(f, disk[OptionKey(f)])
            \/ UnknownLevel /\ error = Coerced("log_level", disk[OptionKey("log_level")])
        /\ pc = "raised" \/ ENABLED Next

\* worker_count = yes: int() fails and the ValueError leaves the constructor
C5_Witness ==
    /\ pc = "raised"
    /\ <<"global", "worker_count">> \in DOMAIN disk
    /\ disk[<<"global", "worker_count">>] = <<"y", "e", "s">>
    /\ error.type = "ValueError"
    /\ Touched("resolve")

Events == [k \in 1..Len(trace) |-> trace[k].ev]

\* C10: a successful construction sets logging up exactly twice: first with
\* the pre-file level and format, before the file checks, the parsing and
\* the resolution; then with the final level and format; the dump of the
\* settings comes last and only when the final level is DEBUG.
C10_LoggingOrder ==
    pc = "done" =>
        /\ SubSeq(Events, 1, 6) =
              <<"setup_logging", "isfile", "access", "read", "resolve", "setup_logging">>
        /\ trace[1] = [ev |-> "setup_logging", level |-> PreFileValue("log_level"),
                       format |-> Defaults.log_format]
        /\ trace[6] = [ev |-> "setup_logging", level |-> self.log_level,
                       format |-> self.log_format]
        /\ IF self.log_level = PyInt(DEBUG)
           THEN Len(trace) = 7 /\ trace[7] = [ev |-> "debug_dump", settings |-> self]
           ELSE Len(trace) = 6
        /\ root_logger = [handlers |-> <<[stream |-> "stdout", format |-> self.log_format]>>,
                          level |-> self.log_level]

\* the file turns an INFO start into DEBUG: two setups with different levels,
\* then the dump
C10_Witness ==
    /\ pc = "done"
    /\ trace[1].level = PyInt(INFO)
    /\ trace[6].level = PyInt(DEBUG)
    /\ Len(trace) = 7

-----------------------------------------------------------------------------
(* get and get_log_level as functions of the parsed file and their         *)
(* arguments (SpecGet)                                                     *)

GetSecOpts ==
    { <<"logging", "log_level">>, <<"global", "worker_count">>,
      <<"global", "use_debug_module">> }
GetSections == {"logging", "global", "nosuch"}
GetOptions == {"log_level", "worker_count", "use_debug_module"}
GetDefaults == {PyNone, PyInt(7), PyBool(TRUE), PyStr(<<"d">>), PyFloat(<<"1.5">>)}
GetOptionTypes == {"NoneType", "int"}

InitGet ==
    /\ MainIdle
    /\ config \in FilesOver(GetSecOpts)
    /\ call = NoCall
    /\ RulesetIdle

CallGet ==
    /\ \E section \in GetSections, option \in GetOptions,
          default \in GetDefaults, option_type \in GetOptionTypes :
          call' = [ fn |-> "get", section |-> section, option |-> option,
                    default |-> default, option_type |-> option_type,
                    outcome |-> get(config, section, option, default, option_type) ]
    /\ UNCHANGED mainVars
    /\ UNCHANGED rsVars

CallGetLogLevel ==
    /\ \E section \in GetSections, option \in GetOptions, default \in GetDefaults :
          call' = [ fn |-> "get_log_level", section |-> section, option |-> option,
                    default |-> default,
                    outcome |-> get_log_level(config, section, option, default) ]
    /\ UNCHANGED mainVars
    /\ UNCHANGED rsVars

NextGet == CallGet \/ CallGetLogLevel

SpecGet == InitGet /\ [][NextGet]_vars

CallKey == <<call.section, call.option>>

\* the five names and their severities
LevelNamed(raw) ==
    CASE raw = <<"C", "R", "I", "T", "I", "C", "A", "L">> -> CRITICAL
      [] raw = <<"E", "R", "R", "O", "R">> -> ERROR
      [] raw = <<"W", "A", "R", "N", "I", "N", "G">> -> WARNING
      [] raw = <<"I", "N", "F", "O">> -> INFO
      [] raw = <<"D", "E", "B", "U", "G">> -> DEBUG
      [] OTHER -> -1

\* C3: get_log_level returns the severity whose name the file's value is,
\* letter for letter; raises the unknown-log-level error carrying the value
\* for any other value the file gives; and returns its default argument as
\* it is when the section or the option is absent.
C3_LogLevel ==
    call.fn = "get_log_level" =>
        IF CallKey \in DOMAIN config
        THEN IF LevelNamed(config[CallKey]) # -1
             THEN call.outcome = Return(PyInt(LevelNamed(config[CallKey])))
             ELSE call.outcome = Raise("PeekabooConfigException", "Unknown log level",
                                       config[CallKey])
        ELSE call.outcome = Return(call.default)

\* log_level = debug (wrong case) is refused with the value in the error
C3_Witness ==
    /\ call.fn = "get_log_level"
    /\ CallKey \in DOMAIN config
    /\ config[CallKey] = <<"d", "e", "b", "u", "g">>
    /\ call.outcome.kind = "raise"
    /\ call.outcome.arg = <<"d", "e", "b", "u", "g">>

\* C4 as stated: whatever the default, get returns it when the section or
\* the option is absent.
C4_AnyDefault ==
    (call.fn = "get" /\ CallKey \notin DOMAIN config) =>
        call.outcome = Return(call.default)

\* C4 amended: get returns the default as it is when the section or the
\* option is absent, for a default that is None, an int, a bool or a str.
C4_TypedDefault ==
    (/\ call.fn = "get"
     /\ CallKey \notin DOMAIN config
     /\ call.default.t \in {"NoneType", "int", "bool", "str"}) =>
        call.outcome = Return(call.default)

\* the section is there, the option is not, and the int default comes back
C4_Witness ==
    /\ call.fn = "get"
    /\ HasSection(config, call.section)
    /\ CallKey \notin DOMAIN config
    /\ call.default = PyInt(7)
    /\ call.option_type = "NoneType"
    /\ call.outcome = Return(PyInt(7))

-----------------------------------------------------------------------------
(* PeekabooRulesetConfiguration (SpecRuleset) *)

PyList(l) == [t |-> "list", l |-> l]

\* setting.split('.')[0]
KeyOf(setting) == SubSeq(setting, 1, Find(setting, ".") - 1)

HasDot(setting) == Find(setting, ".") # 0

\* __init__, lines 266-272, for one (setting, value) of a section: the
\* section's options afterwards, or the AttributeError of append() on a str
StoreSetting(options, setting, value) ==
    IF HasDot(setting)
    THEN LET key == KeyOf(setting)
             started == IF key \notin DOMAIN options
                        THEN (key :> PyList(<< >>)) @@ options ELSE options
         IN  IF started[key].t # "list"
             THEN Raise("AttributeError", "'str' object has no attribute 'append'", key)
             ELSE Return((key :> PyList(Append(started[key].l, value))) @@ started)
    ELSE Return((setting :> PyStr(value)) @@ options)

\* __init__, lines 265-272: the loop over config.items(section)
RECURSIVE StoreItems(_, _)
StoreItems(items, options) ==
    IF items = << >> THEN Return(options)
    ELSE LET r == StoreSetting(options, items[1].setting, items[1].value) IN
         IF r.kind = "raise" THEN r ELSE StoreItems(Tail(items), r.val)

\* SafeConfigParser.read, line 261: a file that cannot be opened is skipped
\* without an error, a file without proper structure raises ParsingError
ReadRuleset(file) ==
    CASE file.status = "missing" -> Return(<< >>)
      [] file.status = "invalid" -> Raise("ParsingError", "File contains parsing errors", << >>)
      [] OTHER -> Return(file.sections)

\* the except clauses of __init__, lines 273-276
Caught == {"NoSectionError", "NoOptionError"}

\* __init__, lines 256-276: the object, or the exception that leaves it
LoadRuleset(file) ==
    LET read == ReadRuleset(file) IN
    IF read.kind = "raise"
    THEN IF read.type \in Caught THEN {Return(<< >>)} ELSE {read}
    ELSE LET parsed == [section \in DOMAIN read.val |-> StoreItems(read.val[section], << >>)]
             failing == {section \in DOMAIN parsed : parsed[section].kind = "raise"}
         IN  IF failing # {}
             THEN {parsed[section] : section \in failing}
             ELSE {Return([section \in DOMAIN parsed |-> parsed[section].val])}

\* PeekabooRulesetConfiguration.rule_config
rule_config(obj, rule) ==
    IF rule \in DOMAIN obj.ruleset_config THEN obj.ruleset_config[rule] ELSE << >>

EnabledKey == <<"e", "n", "a", "b", "l", "e", "d">>
No == <<"n", "o">>
Yes == <<"y", "e", "s">>

\* rule_enabled() comparing without regard to case
rule_enabled_any_case(obj, rule) ==
    LET options == rule_config(obj, rule)
        value == IF EnabledKey \in DOMAIN options THEN options[EnabledKey] ELSE PyStr(Yes)
    IN  ~(value.t = "str" /\ Lower(value.s) = No)

\* PeekabooRulesetConfiguration.rule_enabled
rule_enabled(obj, rule) ==
    LET options == rule_config(obj, rule)
        value == IF EnabledKey \in DOMAIN options THEN options[EnabledKey] ELSE PyStr(Yes)
    IN  value # PyStr(No)

Item(setting, value) == [setting |-> setting, value |-> value]

\* the option lines a ruleset section is built from: foo, foo.0, foo.1, bar,
\* enabled and enabled.0, each with a few values
Items ==
    { Item(<<"f", "o", "o">>, <<"x">>) }
    \cup { Item(<<"f", "o", "o", ".", d>>, v) : d \in {"0", "1"}, v \in { <<"a">>, <<"b">> } }
    \cup { Item(<<"b", "a", "r">>, <<"c">>) }
    \cup { Item(EnabledKey, v) : v \in { No, Yes, <<"N", "O">> } }
    \cup { Item(EnabledKey \o <<".", "0">>, No) }

\* what config.items(section) can deliver: up to n lines, no option name twice
RECURSIVE ItemSeqs(_)
ItemSeqs(n) ==
    IF n = 0 THEN { << >> }
    ELSE LET shorter == ItemSeqs(n - 1) IN
         shorter \cup
         UNION { { Append(q, i) :
                     i \in { j \in Items : \A k \in 1..Len(q) : q[k].setting # j.setting } } :
                 q \in shorter }

RuleNames == {"rule_a", "rule_b", "rule_c"}

\* rule_a holds any of the sequences, rule_b (when there) disables itself,
\* rule_c never has a section
RulesetFiles ==
    { [status |-> st, sections |-> << >>] : st \in {"missing", "invalid", "ok"} }
    \cup { [status |-> "ok", sections |-> ("rule_a" :> q)] : q \in ItemSeqs(MaxLines) }
    \cup { [status |-> "ok", sections |-> ("rule_a" :> q) @@ ("rule_b" :> <<Item(EnabledKey, No)>>)] :
             q \in ItemSeqs(MaxLines) }

InitRuleset ==
    /\ MainIdle
    /\ config = EmptyFile
    /\ call = NoCall
    /\ rs_file \in RulesetFiles
    /\ rs_self = NoObject
    /\ rs_pc = "start"
    /\ rs_error = NoError
    /\ rs_call = NoCall

\* PeekabooRulesetConfiguration(config_file)
ConstructRuleset ==
    /\ rs_pc = "start"
    /\ \E r \in LoadRuleset(rs_file) :
          IF r.kind = "raise"
          THEN rs_error' = r /\ rs_pc' = "raised" /\ rs_self' = rs_self
          ELSE /\ rs_self' = [config_file |-> <<"ruleset.conf">>, ruleset_config |-> r.val]
               /\ rs_pc' = "done"
               /\ rs_error' = rs_error
    /\ UNCHANGED <<rs_file, rs_call>>
    /\ UNCHANGED <<mainVars, call>>

CallRuleConfig ==
    /\ rs_pc = "done"
    /\ \E rule \in RuleNames :
          rs_call' = [fn |-> "rule_config", rule |-> rule, result |-> rule_config(rs_self, rule)]
    /\ UNCHANGED <<rs_file, rs_self, rs_pc, rs_error>>
    /\ UNCHANGED <<mainVars, call>>

CallRuleEnabled ==
    /\ rs_pc = "done"
    /\ \E rule \in RuleNames :
          rs_call' = [fn |-> "rule_enabled", rule |-> rule, result |-> rule_enabled(rs_self, rule)]
    /\ UNCHANGED <<rs_file, rs_self, rs_pc, rs_error>>
    /\ UNCHANGED <<mainVars, call>>

NextRuleset == ConstructRuleset \/ CallRuleConfig \/ CallRuleEnabled

SpecRuleset == InitRuleset /\ [][NextRuleset]_vars

-----------------------------------------------------------------------------
(* Claims about PeekabooRulesetConfiguration (SpecRuleset) *)

RulesetLoaded == rs_pc = "done"
RulesetAttempted == rs_pc # "start"

\* the values of the dotted options of a section with prefix key, in the
\* order of the file
RECURSIVE DottedValues(_, _)
DottedValues(items, key) ==
    IF items = << >> THEN << >>
    ELSE IF HasDot(items[1].setting) /\ KeyOf(items[1].setting) = key
    THEN <<items[1].value>> \o DottedValues(Tail(items), key)
    ELSE DottedValues(Tail(items), key)

\* C6: in every section, each dotted option has its value in the list kept
\* under the part of its name before the first dot, the list holding the
\* values of the dotted options in file order, and each option without a
\* dot is kept as a scalar under its own name.
C6_DottedLists ==
    (RulesetAttempted /\ rs_file.status = "ok") =>
        /\ RulesetLoaded
        /\ \A section \in DOMAIN rs_file.sections :
             LET items == rs_file.sections[section]
                 options == rs_self.ruleset_config[section]
             IN  \A k \in 1..Len(items) :
                    IF HasDot(items[k].setting)
                    THEN /\ KeyOf(items[k].setting) \in DOMAIN options
                         /\ options[KeyOf(items[k].setting)] =
                               PyList(DottedValues(items, KeyOf(items[k].setting)))
                    ELSE /\ items[k].setting \in DOMAIN options
                         /\ options[items[k].setting] = PyStr(items[k].value)

\* C7: rule_enabled is false exactly for a rule whose section holds the key
\* enabled with the string "no"; rule_config of a rule without a section is
\* the empty mapping.
C7_RuleEnabled ==
    /\ rs_call.fn = "rule_enabled" =>
          ( rs_call.result = FALSE <=>
              /\ rs_call.rule \in DOMAIN rs_file.sections
              /\ EnabledKey \in DOMAIN rs_self.ruleset_config[rs_call.rule]
              /\ rs_self.ruleset_config[rs_call.rule][EnabledKey] = PyStr(No) )
    /\ (rs_call.fn = "rule_config" /\ rs_call.rule \notin DOMAIN rs_file.sections) =>
          rs_call.result = << >>

\* enabled = NO (wrong case) leaves the rule enabled
C7_Witness ==
    /\ rs_call.fn = "rule_enabled"
    /\ rs_call.rule = "rule_a"
    /\ rs_call.result = TRUE
    /\ "rule_a" \in DOMAIN rs_self.ruleset_config
    /\ EnabledKey \in DOMAIN rs_self.ruleset_config["rule_a"]
    /\ rs_self.ruleset_config["rule_a"][EnabledKey] = PyStr(<<"N", "O">>)

\* C8: constructing the ruleset configuration never raises.
C8_NeverRaises == rs_pc # "raised"

\* C9: parsing always completes, and an option name that appeared in a
\* dotted form in a section ends up as a list there.
C9_DottedForcesList ==
    (RulesetAttempted /\ rs_file.status = "ok") =>
        /\ RulesetLoaded
        /\ \A section \in DOMAIN rs_file.sections :
             LET items == rs_file.sections[section]
                 options == rs_self.ruleset_config[section]
             IN  \A k \in 1..Len(items) :
                    HasDot(items[k].setting) =>
                        /\ KeyOf(items[k].setting) \in DOMAIN options
                        /\ options[KeyOf(items[k].setting)].t = "list"

====
